---- MODULE Spec2Model ----
(***************************************************************************)
(* Model of docling_converter.py: the command line front end (main), the   *)
(* single file conversion (DoclingConverter.convert_file) and the batch    *)
(* conversion (DoclingConverter.convert_multiple_files), run against a     *)
(* small file system and a document engine that either converts a file or  *)
(* fails on it.                                                            *)
(*                                                                         *)
(* Strings are sequences of one-character strings, so that pathlib's       *)
(* suffix, stem, with_suffix and glob are computed and not assumed.        *)
(* The empty sequence is the empty string; as a path it is the current     *)
(* directory.                                                              *)
(***************************************************************************)
EXTENDS Integers, Sequences, FiniteSets, TLC

VARIABLES pc, args, fs, converter, exit_code, ext_i, queue, converted_files,
          log, calls, mkdirs, faults, fs0

vars == <<pc, args, fs, converter, exit_code, ext_i, queue, converted_files,
          log, calls, mkdirs, faults, fs0>>

(***************************************************************************)
(* Bounds of the model.                                                    *)
(***************************************************************************)
\* number of file system bundles present when the program starts
MaxEntries == 3
\* length of an --extensions list given on the command line
MaxExts == 2
\* number of environment faults (failing open/write, failing constructor)
MaxFaults == 1

(***************************************************************************)
(* Strings used by the program and by the inputs.                          *)
(***************************************************************************)
\* Python's None; no string equals it
None == <<"None">>

DOT == "."
SEP == "/"
EXT_PDF == <<".", "p", "d", "f">>
EXT_DOCX == <<".", "d", "o", "c", "x">>
EXT_PPTX == <<".", "p", "p", "t", "x">>
EXT_DOC == <<".", "d", "o", "c">>
EXT_PPT == <<".", "p", "p", "t">>
EXT_MD == <<".", "m", "d">>
DefaultExtensions == <<EXT_PDF, EXT_DOCX, EXT_PPTX, EXT_DOC, EXT_PPT>>
MARKDOWN_OUTPUT == <<"m", "a", "r", "k", "d", "o", "w", "n", "_",
                     "o", "u", "t", "p", "u", "t">>

(***************************************************************************)
(* pathlib: PurePosixPath parsing, name, parent, suffix, stem, with_suffix *)
(***************************************************************************)
RECURSIVE PartsFrom(_, _, _)
PartsFrom(s, i, cur) ==
    LET keep == IF cur = <<>> \/ cur = <<DOT>> THEN <<>> ELSE <<cur>>
    IN  IF i > Len(s) THEN keep
        ELSE IF s[i] = SEP THEN keep \o PartsFrom(s, i + 1, <<>>)
        ELSE PartsFrom(s, i + 1, Append(cur, s[i]))

\* the components of a relative path: empty and "." components are dropped
Parts(s) == PartsFrom(s, 1, <<>>)

RECURSIVE JoinParts(_)
JoinParts(ps) ==
    IF ps = <<>> THEN <<>>
    ELSE IF Len(ps) = 1 THEN ps[1]
    ELSE ps[1] \o <<SEP>> \o JoinParts(Tail(ps))

\* Path(s), as the string str(Path(s)) with "." written as the empty string
PathOf(s) == JoinParts(Parts(s))

\* Path.name
Name(p) == LET ps == Parts(p) IN IF ps = <<>> THEN <<>> ELSE ps[Len(ps)]

\* Path.parent
Parent(p) == LET ps == Parts(p)
             IN  IF ps = <<>> THEN <<>> ELSE JoinParts(SubSeq(ps, 1, Len(ps) - 1))

\* Path / name
Join(p, name) == PathOf(p \o <<SEP>> \o name)

\* str.rfind('.') + 1, 0 when there is no dot
RFindDot(name) ==
    LET dots == {i \in 1..Len(name) : name[i] = DOT}
    IN  IF dots = {} THEN 0 ELSE CHOOSE i \in dots : \A j \in dots : j <= i

\* Path.suffix of a name: from the last dot, unless the dot is first or last
Suffix(name) ==
    LET i == RFindDot(name)
    IN  IF 1 < i /\ i < Len(name) THEN SubSeq(name, i, Len(name)) ELSE <<>>

\* Path.stem of a name
Stem(name) ==
    LET i == RFindDot(name)
    IN  IF 1 < i /\ i < Len(name) THEN SubSeq(name, 1, i - 1) ELSE name

\* Path.with_suffix(suffix), for a path with a non-empty name
WithSuffix(p, suffix) ==
    LET name == Name(p)
        old == Suffix(name)
        new == IF old = <<>> THEN name \o suffix
               ELSE SubSeq(name, 1, Len(name) - Len(old)) \o suffix
    IN  Join(Parent(p), new)

\* str.endswith: what fnmatch does for the pattern "*" + ext
EndsWith(name, ext) ==
    /\ Len(ext) <= Len(name)
    /\ SubSeq(name, Len(name) - Len(ext) + 1, Len(name)) = ext

(***************************************************************************)
(* The file system: a function from the paths that exist to their entry.   *)
(* The current directory (the empty path) always exists.                   *)
(***************************************************************************)
DirE == [kind |-> "dir", content |-> ""]
FileE(c) == [kind |-> "file", content |-> c]
Absent == [kind |-> "absent", content |-> ""]

Entry(f, p) == IF p \in DOMAIN f THEN f[p] ELSE Absent

\* Path.exists(): true of files and of directories
Exists(f, p) == p = <<>> \/ p \in DOMAIN f

IsDir(f, p) == p = <<>> \/ (p \in DOMAIN f /\ f[p].kind = "dir")

Put(f, p, e) == [q \in DOMAIN f \cup {p} |-> IF q = p THEN e ELSE f[q]]

\* contents the document engine converts; it fails on the others
ValidContent == {"doc", "old", "markdown"}

\* converter.convert(input_path) followed by document.export_to_markdown()
EngineConverts(f, p) ==
    /\ p \in DOMAIN f
    /\ f[p].kind = "file"
    /\ f[p].content \in ValidContent

\* open(output_path, 'w') raises: empty path, a directory, no parent directory
OpenError(f, out) ==
    LET q == PathOf(out)
    IN  q = <<>> \/ IsDir(f, q) \/ ~IsDir(f, Parent(q))

\* Path.mkdir(exist_ok=True): the error it raises, "" when it raises none
MkdirError(f, p) ==
    IF Exists(f, p) THEN (IF IsDir(f, p) THEN "" ELSE "FileExistsError")
    ELSE IF ~Exists(f, Parent(p)) THEN "FileNotFoundError"
    ELSE IF ~IsDir(f, Parent(p)) THEN "NotADirectoryError"
    ELSE ""

\* a glob that ignores the extension
Glob_AllEntries(f, dir, ext) ==
    IF ~IsDir(f, dir) THEN {} ELSE {p \in DOMAIN f : Parent(p) = dir}

\* Path.glob("*" + ext): the entries directly inside dir whose name ends in ext
Glob(f, dir, ext) ==
    IF ~IsDir(f, dir) THEN {}
    ELSE {p \in DOMAIN f : Parent(p) = dir /\ EndsWith(Name(p), ext)}

\* the orders in which the file system may enumerate a set of entries
Perms(S) ==
    {s \in [1..Cardinality(S) -> S] :
        \A i, j \in 1..Cardinality(S) : i # j => s[i] # s[j]}

(***************************************************************************)
(* Log records: the level and the source line of the logger call.          *)
(***************************************************************************)
LogRec(level, line, about) == [level |-> level, line |-> line, about |-> about]

(***************************************************************************)
(* DoclingConverter.convert_file                                           *)
(***************************************************************************)
\* convert_file without the existence check of line 77
InputMissing_NoCheck(f, input_file) == FALSE

\* line 77: the input path is rejected
InputMissing(f, input_file) == ~Exists(f, input_file)

\* convert_file ignoring the explicit output path
ResolveOutput_IgnoreExplicit(input_file, output_path) ==
    WithSuffix(input_file, EXT_MD)

\* lines 81-82: the path the Markdown is written to
ResolveOutput(input_file, output_path) ==
    IF output_path = None THEN WithSuffix(input_file, EXT_MD) ELSE output_path

\* a write whose failure still leaves the complete text
WriteEntry_Complete(io) == FileE("markdown")

\* lines 94-95: the entry left at the output path by open(..., 'w') and write
WriteEntry(io) ==
    IF io = "write_err" THEN FileE("partial") ELSE FileE("markdown")

\* The outcome of convert_file on file system f.  io is what the environment
\* does to the write: "ok", "open_err" (open fails) or "write_err" (open
\* succeeds and truncates, then write or close fails).
ConvertFile(f, input_path, output_path, io) ==
    LET input_file == PathOf(input_path)
        out == ResolveOutput(input_file, output_path)
        q == PathOf(out)
        start == LogRec("INFO", 84, input_path)
        fail == LogRec("ERROR", 101, None)
        base == [input |-> input_path, given |-> output_path, out |-> None,
                 ret |-> None, raised |-> "", engine |-> FALSE,
                 opened |-> FALSE, fs |-> f, logs |-> <<>>, io |-> io]
    IN  IF InputMissing(f, input_file)
        THEN [base EXCEPT !.raised = "FileNotFoundError"]
        ELSE IF ~EngineConverts(f, input_file)
        THEN [base EXCEPT !.raised = "ConversionError", !.engine = TRUE,
                          !.out = out, !.logs = <<start, fail>>]
        ELSE IF OpenError(f, out) \/ io = "open_err"
        THEN [base EXCEPT !.raised = "OSError", !.engine = TRUE,
                          !.out = out, !.logs = <<start, fail>>]
        ELSE IF io = "write_err"
        THEN [base EXCEPT !.raised = "OSError", !.engine = TRUE,
                          !.out = out, !.opened = TRUE,
                          !.fs = Put(f, q, WriteEntry(io)),
                          !.logs = <<start, fail>>]
        ELSE [base EXCEPT !.ret = out, !.engine = TRUE, !.out = out,
                          !.opened = TRUE,
                          !.fs = Put(f, q, WriteEntry(io)),
                          !.logs = <<start, LogRec("INFO", 97, out)>>]

\* what the environment may do to one write, given the faults already spent
IoChoices(n) == IF n < MaxFaults THEN {"ok", "open_err", "write_err"} ELSE {"ok"}

\* the history record of one convert_file call
CallRec(r, f, idx) ==
    [input |-> r.input, given |-> r.given, out |-> r.out, ret |-> r.ret,
     raised |-> r.raised, engine |-> r.engine, opened |-> r.opened,
     io |-> r.io, ext |-> idx,
     before |-> IF r.out = None THEN Absent ELSE Entry(f, PathOf(r.out)),
     after |-> IF r.out = None THEN Absent ELSE Entry(r.fs, PathOf(r.out)),
     in_before |-> Entry(f, PathOf(r.input)),
     in_after |-> Entry(r.fs, PathOf(r.input)),
     changed |-> {p \in DOMAIN f \cup DOMAIN r.fs : Entry(f, p) # Entry(r.fs, p)}]

(***************************************************************************)
(* Inputs: the paths named on the command line and the file systems the    *)
(* program is started on.                                                  *)
(***************************************************************************)
P_D == <<"d">>
P_D_SLASH == <<"d", "/">>
P_O == <<"o">>
P_Q == <<"q">>
P_X_O == <<"x", "/", "o">>
P_M_PDF == <<"m", ".", "p", "d", "f">>
P_A_PDF == <<"d", "/", "a", ".", "p", "d", "f">>
P_B_PDF == <<"d", "/", "b", ".", "p", "d", "f">>
P_C_TXT == <<"d", "/", "c", ".", "t", "x", "t">>
P_N_MD == <<"d", "/", "n", ".", "m", "d">>
P_A_MD == <<"d", "/", "a", ".", "m", "d">>
P_S == <<"d", "/", "s">>
P_S_E_PDF == <<"d", "/", "s", "/", "e", ".", "p", "d", "f">>
P_O_A_MD == <<"o", "/", "a", ".", "m", "d">>
P_O_T_MD == <<"o", "/", "t", ".", "m", "d">>

\* groups of entries that may be present at the start
Bundles ==
    { (P_D :> DirE) @@ (P_A_PDF :> FileE("doc")),
      (P_D :> DirE) @@ (P_B_PDF :> FileE("corrupt")),
      (P_D :> DirE) @@ (P_N_MD :> FileE("doc")),
      (P_D :> DirE) @@ (P_C_TXT :> FileE("doc"))
         @@ (P_S :> DirE) @@ (P_S_E_PDF :> FileE("doc")),
      (P_O :> DirE) @@ (P_O_A_MD :> FileE("old")) }

RECURSIVE Merge(_)
Merge(S) == IF S = {} THEN << >>
            ELSE LET b == CHOOSE x \in S : TRUE IN b @@ Merge(S \ {b})

FileSystems ==
    {Merge(S) : S \in {T \in SUBSET Bundles : Cardinality(T) <= MaxEntries}}

ExtPool == {EXT_PDF, EXT_MD}

ExtLists ==
    {DefaultExtensions} \cup
    UNION {[1..n -> ExtPool] : n \in 1..MaxExts}

Args(i, o, d, od, e) ==
    [input |-> i, output |-> o, directory |-> d, output_dir |-> od,
     extensions |-> e]

\* every combination of absent, empty and present input and directory
ArgMatrix ==
    {Args(i, None, d, None, DefaultExtensions) :
        i \in {None, <<>>, P_A_PDF}, d \in {None, <<>>, P_D_SLASH}}

SingleArgs ==
    {Args(i, o, None, None, DefaultExtensions) :
        i \in {P_A_PDF, P_B_PDF, P_N_MD, P_M_PDF, P_D},
        o \in {None, P_O_T_MD, P_C_TXT}}

BatchArgs ==
    {Args(None, None, d, od, e) :
        d \in {P_D_SLASH, P_Q}, od \in {None, P_O, P_X_O, P_D},
        e \in ExtLists}

Init ==
    /\ pc = "main"
    /\ args \in ArgMatrix \cup SingleArgs \cup BatchArgs
    /\ fs0 \in FileSystems
    /\ fs = fs0
    /\ converter = FALSE
    /\ exit_code = -1
    /\ ext_i = 0
    /\ queue = <<>>
    /\ converted_files = <<>>
    /\ log = <<>>
    /\ calls = <<>>
    /\ mkdirs = 0
    /\ faults = 0

(***************************************************************************)
(* main                                                                    *)
(***************************************************************************)
\* Python truthiness of an optional string argument
Truthy(x) == x # None /\ x # <<>>

\* main without the check of lines 186-187
ArgumentError_NoBothCheck(a) == ~Truthy(a.input) /\ ~Truthy(a.directory)

\* lines 183-187: parser.error is called
ArgumentError(a) ==
    \/ ~Truthy(a.input) /\ ~Truthy(a.directory)
    \/ Truthy(a.input) /\ Truthy(a.directory)

\* lines 213-215: the top-level handler
TopLevelError == LogRec("ERROR", 214, None)

\* lines 176-187
ParseArgs ==
    /\ pc = "main"
    /\ IF ArgumentError(args)
       THEN pc' = "exit" /\ exit_code' = 2
       ELSE pc' = "init" /\ exit_code' = exit_code
    /\ UNCHANGED <<args, fs, converter, ext_i, queue, converted_files, log,
                   calls, mkdirs, faults, fs0>>

\* line 191, and __init__ and _setup_converter (lines 39-61)
Construct ==
    /\ pc = "init"
    /\ \E ok \in {TRUE} \cup (IF faults < MaxFaults THEN {FALSE} ELSE {}) :
         IF ok
         THEN /\ converter' = TRUE
              /\ log' = Append(log, LogRec("INFO", 57, None))
              /\ pc' = "convert"
              /\ UNCHANGED <<exit_code, faults>>
         ELSE /\ log' = log \o <<LogRec("ERROR", 60, None), TopLevelError>>
              /\ faults' = faults + 1
              /\ pc' = "exit"
              /\ exit_code' = 1
              /\ UNCHANGED converter
    /\ UNCHANGED <<args, fs, ext_i, queue, converted_files, calls, mkdirs, fs0>>

\* lines 193-196 with convert_file, then the handler of lines 213-215
MainSingle ==
    /\ pc = "convert"
    /\ Truthy(args.input)
    /\ \E io \in IoChoices(faults) :
         LET r == ConvertFile(fs, args.input, args.output, io)
         IN  /\ fs' = r.fs
             /\ calls' = Append(calls, CallRec(r, fs, 0))
             /\ faults' = IF io = "ok" THEN faults ELSE faults + 1
             /\ IF r.raised = ""
                THEN log' = log \o r.logs /\ exit_code' = 0
                ELSE log' = log \o r.logs \o <<TopLevelError>> /\ exit_code' = 1
    /\ pc' = "exit"
    /\ UNCHANGED <<args, converter, ext_i, queue, converted_files, mkdirs, fs0>>

(***************************************************************************)
(* DoclingConverter.convert_multiple_files, called from main lines 198-207 *)
(***************************************************************************)
\* line 120
BatchInputPath(a) == PathOf(a.directory)

\* lines 125-128
BatchOutputPath(a) ==
    PathOf(IF a.output_dir = None
           THEN Join(BatchInputPath(a), MARKDOWN_OUTPUT)
           ELSE a.output_dir)

\* line 137
BatchOutputFile(output_path, file_path) ==
    Join(output_path, Stem(Name(file_path)) \o EXT_MD)

\* lines 120-131: the directory check and the mkdir
BatchSetup ==
    /\ pc = "convert"
    /\ ~Truthy(args.input)
    /\ Truthy(args.directory)
    /\ IF ~Exists(fs, BatchInputPath(args))
       THEN /\ log' = Append(log, TopLevelError)
            /\ pc' = "exit" /\ exit_code' = 1
            /\ UNCHANGED <<fs, mkdirs>>
       ELSE /\ mkdirs' = mkdirs + 1
            /\ IF MkdirError(fs, BatchOutputPath(args)) # ""
               THEN /\ log' = Append(log, TopLevelError)
                    /\ pc' = "exit" /\ exit_code' = 1
                    /\ UNCHANGED fs
               ELSE /\ fs' = IF Exists(fs, BatchOutputPath(args)) THEN fs
                             ELSE Put(fs, BatchOutputPath(args), DirE)
                    /\ pc' = "loop"
                    /\ UNCHANGED <<log, exit_code>>
    /\ UNCHANGED <<args, converter, ext_i, queue, converted_files, calls,
                   faults, fs0>>

\* lines 134-135: the next extension is taken and its glob is enumerated
BatchGlob ==
    /\ pc = "loop"
    /\ queue = <<>>
    /\ ext_i < Len(args.extensions)
    /\ ext_i' = ext_i + 1
    /\ queue' \in Perms(Glob(fs, BatchInputPath(args), args.extensions[ext_i + 1]))
    /\ UNCHANGED <<pc, args, fs, converter, exit_code, converted_files, log,
                   calls, mkdirs, faults, fs0>>

\* a handler that catches the engine's errors only
BatchCatches_EngineOnly(raised) == raised = "ConversionError"

\* line 140: "except Exception" catches every error convert_file raises
BatchCatches(raised) ==
    raised \in {"FileNotFoundError", "ConversionError", "OSError"}

\* a result list built by prepending
Collect_Prepend(converted, r) ==
    IF r.raised = "" THEN <<r.ret>> \o converted ELSE converted

\* a batch that skips a failed file without logging it
BatchLog_Silent(lg, r) == lg \o r.logs

\* lines 139-142: what one convert_file outcome does to the list and the log
Collect(converted, r) ==
    IF r.raised = "" THEN Append(converted, r.ret) ELSE converted

BatchLog(lg, r) ==
    IF r.raised = "" THEN lg \o r.logs
    ELSE IF BatchCatches(r.raised)
    THEN lg \o r.logs \o <<LogRec("ERROR", 141, r.input)>>
    ELSE lg \o r.logs \o <<TopLevelError>>

\* lines 136-142: one file of the current extension
BatchConvert ==
    /\ pc = "loop"
    /\ queue # <<>>
    /\ \E io \in IoChoices(faults) :
         LET file_path == Head(queue)
             output_file == BatchOutputFile(BatchOutputPath(args), file_path)
             r == ConvertFile(fs, file_path, output_file, io)
             escapes == r.raised # "" /\ ~BatchCatches(r.raised)
         IN  /\ fs' = r.fs
             /\ calls' = Append(calls, CallRec(r, fs, ext_i))
             /\ faults' = IF io = "ok" THEN faults ELSE faults + 1
             /\ converted_files' = Collect(converted_files, r)
             /\ log' = BatchLog(log, r)
             /\ pc' = IF escapes THEN "exit" ELSE pc
             /\ exit_code' = IF escapes THEN 1 ELSE exit_code
    /\ queue' = Tail(queue)
    /\ UNCHANGED <<args, converter, ext_i, mkdirs, fs0>>

\* line 144 and main lines 205-207: the batch returns and main ends
BatchReturn ==
    /\ pc = "loop"
    /\ queue = <<>>
    /\ ext_i = Len(args.extensions)
    /\ pc' = "exit"
    /\ exit_code' = 0
    /\ UNCHANGED <<args, fs, converter, ext_i, queue, converted_files, log,
                   calls, mkdirs, faults, fs0>>

Next ==
    \/ ParseArgs
    \/ Construct
    \/ MainSingle
    \/ BatchSetup
    \/ BatchGlob
    \/ BatchConvert
    \/ BatchReturn

Spec == Init /\ [][Next]_vars

(***************************************************************************)
(* Properties                                                              *)
(***************************************************************************)
InputGiven == args.input \notin {None, <<>>}
DirectoryGiven == args.directory \notin {None, <<>>}
SingleMode == InputGiven /\ ~DirectoryGiven
BatchMode == DirectoryGiven /\ ~InputGiven

FailedCalls == {i \in DOMAIN calls : calls[i].raised # ""}
BatchFailureRecords == {j \in DOMAIN log : log[j].line = 141}
TopLevelRecords == {j \in DOMAIN log : log[j].line = 214}

\* the values returned by the successful calls, in call order
SuccessfulRets ==
    LET ok == SelectSeq(calls, LAMBDA c : c.raised = "")
    IN  [i \in 1..Len(ok) |-> ok[i].ret]

\* <stem>.md for the name of path p, with the stem read off the name
StemMd(p) ==
    LET n == Name(p)
    IN  IF \E k \in 2..(Len(n) - 1) :
               n[k] = DOT /\ \A j \in (k + 1)..Len(n) : n[j] # DOT
        THEN LET k == CHOOSE k \in 2..(Len(n) - 1) :
                          n[k] = DOT /\ \A j \in (k + 1)..Len(n) : n[j] # DOT
             IN  SubSeq(n, 1, k - 1) \o EXT_MD
        ELSE n \o EXT_MD

\* the entries directly inside the batch's input directory at the start
DirectEntries == {p \in DOMAIN fs0 : Parent(p) = PathOf(args.directory)}

MatchesSome(p) ==
    \E k \in DOMAIN args.extensions : EndsWith(Name(p), args.extensions[k])

\* the output directory the batch is asked to use
WantedOutputDir ==
    IF args.output_dir = None
    THEN PathOf(args.directory) \o <<SEP>> \o MARKDOWN_OUTPUT
    ELSE PathOf(args.output_dir)

\* C1: a convert_file call whose input path does not exist raises
\* FileNotFoundError, whether or not an output path is given, without the
\* engine being invoked and without any file being created or modified.
C1_MissingInputFailsNotFound ==
    \A i \in DOMAIN calls :
        calls[i].in_before = Absent =>
            /\ calls[i].raised = "FileNotFoundError"
            /\ ~calls[i].engine
            /\ ~calls[i].opened
            /\ calls[i].changed = {}

C1_Witness ==
    \E i \in DOMAIN calls :
        /\ calls[i].in_before = Absent
        /\ calls[i].given = P_O_T_MD
        /\ calls[i].raised = "FileNotFoundError"
        /\ P_O \in DOMAIN fs0

\* C3: when neither or both of input and directory are given, main ends
\* with an argument error (exit code 2) before any work: no converter, no
\* conversion, no file or directory created; a conversion mode is entered
\* only when exactly one of the two is given.
C3_ArgumentErrorBeforeWork ==
    /\ (InputGiven = DirectoryGiven) =>
          /\ pc \in {"main", "exit"}
          /\ pc = "exit" => exit_code = 2
          /\ ~converter
          /\ calls = <<>>
          /\ mkdirs = 0
          /\ fs = fs0
          /\ log = <<>>
    /\ (InputGiven # DirectoryGiven) => exit_code # 2
    /\ pc \in {"init", "convert", "loop"} => InputGiven # DirectoryGiven

C3_Witness ==
    /\ pc = "exit"
    /\ exit_code = 2
    /\ args.input = P_A_PDF
    /\ args.directory = P_D_SLASH
    /\ P_A_PDF \in DOMAIN fs0

\* C9: at the end of main, in single-file mode every error of convert_file
\* has reached the top-level handler and the exit code is 1; in batch mode a
\* per-file failure never reaches the top level and the exit code is 0 even
\* when every file failed; a missing input directory ends the batch before
\* any conversion with exit code 1.
C9_ErrorPropagation ==
    (pc = "exit" /\ converter) =>
        /\ SingleMode =>
              /\ Len(calls) = 1
              /\ calls[1].raised # "" =>
                    exit_code = 1 /\ log[Len(log)] = TopLevelError
              /\ calls[1].raised = "" => exit_code = 0 /\ TopLevelRecords = {}
        /\ (BatchMode /\ calls # <<>>) =>
              exit_code = 0 /\ TopLevelRecords = {}
        /\ (BatchMode /\ PathOf(args.directory) \notin DOMAIN fs0) =>
              /\ exit_code = 1
              /\ calls = <<>>
              /\ mkdirs = 0
              /\ fs = fs0
              /\ log[Len(log)] = TopLevelError

C9_Witness ==
    /\ pc = "exit"
    /\ BatchMode
    /\ exit_code = 0
    /\ Len(calls) >= 2
    /\ FailedCalls = DOMAIN calls
    /\ \E i \in DOMAIN calls : calls[i].raised = "OSError"

\* C2 (as stated): a batch over a directory with N matching files of which
\* exactly one is invalid does not raise, returns N-1 output paths and logs
\* exactly one failure.  Stated for batches without environment faults,
\* without matching subdirectories and with an output directory other than
\* the input directory.
C2_OneInvalidOneFailure ==
    LET matching == {p \in DirectEntries : MatchesSome(p)}
        invalid == {p \in matching : fs0[p].content \notin ValidContent}
    IN  ( /\ pc = "exit"
          /\ BatchMode
          /\ calls # <<>>
          /\ faults = 0
          /\ \A p \in matching : fs0[p].kind = "file"
          /\ WantedOutputDir # PathOf(args.directory)
          /\ Cardinality(invalid) = 1 )
        => /\ exit_code = 0
           /\ Len(converted_files) = Cardinality(matching) - 1
           /\ Cardinality(BatchFailureRecords) = 1

\* C2 (amended): in a batch every failed convert_file call is logged once by
\* the batch (line 141) and skipped, every successful call contributes its
\* output path, and the batch does not raise; so a batch with exactly one
\* failed call among its calls returns the output paths of all the other
\* calls, in order, and logs exactly one batch failure, for the failed input.
C2_OneFailurePerFailedCall ==
    BatchMode =>
        /\ Len(converted_files) + Cardinality(FailedCalls) = Len(calls)
        /\ Cardinality(BatchFailureRecords) = Cardinality(FailedCalls)
        /\ (pc = "exit" /\ Cardinality(FailedCalls) = 1) =>
              /\ exit_code = 0
              /\ converted_files = SuccessfulRets
              /\ Len(converted_files) = Len(calls) - 1
              /\ \A j \in BatchFailureRecords, i \in FailedCalls :
                    log[j].about = calls[i].input

C2_Witness ==
    /\ pc = "exit"
    /\ BatchMode
    /\ Len(calls) >= 3
    /\ \E i \in DOMAIN calls :
          FailedCalls = {i} /\ calls[i].raised = "ConversionError"
    /\ Len(converted_files) = Len(calls) - 1

\* C4: a successful convert_file call without an explicit output path writes
\* to the input path with its extension replaced by .md, and the input file
\* is not modified.
C4_DefaultOutputKeepsInput ==
    \A i \in DOMAIN calls :
        (calls[i].given = None /\ calls[i].raised = "") =>
            /\ PathOf(calls[i].out)
                 = Join(Parent(calls[i].input), StemMd(calls[i].input))
            /\ calls[i].after = FileE("markdown")
            /\ calls[i].in_after = calls[i].in_before

\* C5 (as stated): a failed write leaves the output path either absent or
\* with the unchanged entry of a previous run.  Stated for output paths
\* other than the input path.
C5_FailedWriteTwoStates ==
    \A i \in DOMAIN calls :
        (calls[i].raised = "OSError"
            /\ PathOf(calls[i].out) # PathOf(calls[i].input)) =>
            \/ calls[i].after = Absent
            \/ calls[i].after = calls[i].before

\* C5 (amended): a failed write is not cleaned up and leaves the output path
\* in one of three states: absent or unchanged when open fails, and a newly
\* created or truncated, partially written file when open succeeded and the
\* write failed; nothing else in the file system changes.
C5_FailedWriteThreeStates ==
    \A i \in DOMAIN calls :
        calls[i].raised = "OSError" =>
            \/ /\ ~calls[i].opened
               /\ calls[i].after = calls[i].before
               /\ calls[i].changed = {}
            \/ /\ calls[i].opened
               /\ calls[i].before.kind \in {"absent", "file"}
               /\ calls[i].after = FileE("partial")
               /\ calls[i].changed \subseteq {PathOf(calls[i].out)}

C5_Witness ==
    \E i \in DOMAIN calls :
        /\ calls[i].raised = "OSError"
        /\ calls[i].opened
        /\ calls[i].before = FileE("old")
        /\ calls[i].after = FileE("partial")

\* C6: once the batch has passed the check of its input directory, the
\* output directory exists, whatever output directory was asked for, and
\* mkdir was called exactly once, before any file was converted.
C6_OutputDirEnsured ==
    (BatchMode /\ mkdirs > 0) =>
        /\ mkdirs = 1
        /\ IsDir(fs, WantedOutputDir)

\* C7: a batch writes at most N output files, N being the number of files
\* directly inside the input directory that match a configured extension,
\* and no non-matching file and no file of a subdirectory is passed to
\* convert_file.
C7_OnlyMatchingFiles ==
    BatchMode =>
        LET matching == {p \in DirectEntries :
                            fs0[p].kind = "file" /\ MatchesSome(p)}
            outputs == {PathOf(calls[i].out) :
                            i \in {j \in DOMAIN calls : calls[j].opened}}
        IN  /\ Cardinality(outputs) <= Cardinality(matching)
            /\ \A i \in DOMAIN calls :
                  /\ Parent(calls[i].input) = PathOf(args.directory)
                  /\ MatchesSome(calls[i].input)
                  /\ calls[i].input \notin {P_C_TXT, P_S_E_PDF}
            /\ \A p \in DOMAIN fs \cup DOMAIN fs0 :
                  Entry(fs, p) # Entry(fs0, p) =>
                      p \in outputs \cup {WantedOutputDir}

C7_Witness ==
    /\ pc = "exit"
    /\ BatchMode
    /\ {P_C_TXT, P_S_E_PDF} \subseteq DOMAIN fs0
    /\ \E i \in DOMAIN calls :
          calls[i].input = P_A_PDF /\ calls[i].raised = ""

\* C8: the list returned by the batch holds exactly the output paths of the
\* successful conversions, in call order; calls follow the order of the
\* extension list, each for a file matching the extension being processed;
\* and a file matching k entries of the list is converted k times.
C8_DiscoveryOrder ==
    BatchMode =>
        /\ converted_files = SuccessfulRets
        /\ \A i, j \in DOMAIN calls :
              i < j => calls[i].ext <= calls[j].ext
        /\ \A i \in DOMAIN calls :
              /\ calls[i].ext \in DOMAIN args.extensions
              /\ EndsWith(Name(calls[i].input), args.extensions[calls[i].ext])
        /\ (pc = "exit" /\ exit_code = 0) =>
              \A p \in DirectEntries :
                  Cardinality({i \in DOMAIN calls : calls[i].input = p})
                    = Cardinality({k \in DOMAIN args.extensions :
                                     EndsWith(Name(p), args.extensions[k])})

C8_Witness ==
    /\ pc = "exit"
    /\ BatchMode
    /\ Len(calls) = 4
    /\ Len(converted_files) = 2
    /\ \E i, j \in DOMAIN calls :
          /\ calls[i].ext = 1 /\ calls[j].ext = 2
          /\ calls[i].input = calls[j].input
          /\ calls[i].raised = "" /\ calls[j].raised = ""

\* C10: a successful conversion writes exactly one file and returns its
\* path: the explicit output path when one is given, otherwise the .md
\* sibling of the input, and in batch mode <output_dir>/<input_stem>.md.
C10_OutputPath ==
    \A i \in DOMAIN calls :
        calls[i].raised = "" =>
            /\ calls[i].ret = calls[i].out
            /\ calls[i].opened
            /\ calls[i].after = FileE("markdown")
            /\ calls[i].changed \subseteq {PathOf(calls[i].out)}
            /\ (SingleMode /\ args.output # None) =>
                  calls[i].out = args.output
            /\ (SingleMode /\ args.output = None) =>
                  calls[i].out
                    = Join(Parent(calls[i].input), StemMd(calls[i].input))
            /\ BatchMode =>
                  calls[i].out
                    = WantedOutputDir \o <<SEP>> \o StemMd(calls[i].input)
            /\ (SingleMode /\ args.output = None /\ args.input = P_A_PDF) =>
                  calls[i].out = P_A_MD
            /\ (BatchMode /\ args.output_dir = P_O
                  /\ calls[i].input = P_A_PDF) =>
                  calls[i].out = P_O_A_MD

C10_Witness ==
    \E i \in DOMAIN calls :
        /\ calls[i].raised = ""
        /\ calls[i].input = P_A_PDF
        /\ calls[i].given = P_C_TXT
        /\ calls[i].ret = P_C_TXT
        /\ calls[i].before = Absent

====
